---- MODULE Spec2Model ----
(***************************************************************************)
(* The audio rate tracker of the rk628 HDMI receiver driver                *)
(* (drivers/media/i2c/rk628/rk628_hdmirx.c): the sample-rate estimator,    *)
(* the FIFO controller, the two periodic tick variants, the interrupt      *)
(* entry points, the deferred resync pass, setup and teardown.             *)
(***************************************************************************)
EXTENDS Integers, Sequences, FiniteSets, TLC

(***************************************************************************)
(* Fixed-width unsigned arithmetic.  A u32 is a sequence of 4 bytes and a  *)
(* u64 a sequence of 8 bytes, least significant byte first, so that the    *)
(* C widths (and their truncations) are kept although the checker's own    *)
(* integers are narrower than a u32.                                       *)
(***************************************************************************)
Pow2(k) == CASE k = 0 -> 1 [] k = 1 -> 2 [] k = 2 -> 4 [] k = 3 -> 8
             [] k = 4 -> 16 [] k = 5 -> 32 [] k = 6 -> 64 [] OTHER -> 128

Pow256(k) == CASE k = 0 -> 1 [] k = 1 -> 256 [] k = 2 -> 65536 [] OTHER -> 16777216

\* the bytes of a small number n (0 <= n < 2^31), in a word of len bytes
ToBytes(n, len) ==
    [i \in 1..len |-> IF i <= 4 THEN (n \div Pow256(i - 1)) % 256 ELSE 0]

U32(n) == ToBytes(n, 4)

\* zero extension / truncation of a word to len bytes
Resize(a, len) == [i \in 1..len |-> IF i <= Len(a) THEN a[i] ELSE 0]

RECURSIVE Carry(_, _, _)
\* carry propagation over column sums; the carry out of the top byte is
\* dropped, which is arithmetic modulo 256^Len(cols)
Carry(cols, i, c) ==
    IF i > Len(cols) THEN << >>
    ELSE LET s == cols[i] + c
         IN  <<s % 256>> \o Carry(cols, i + 1, s \div 256)

RECURSIVE ColSum(_, _, _, _)
ColSum(a, b, k, i) ==
    IF i > k THEN 0
    ELSE (IF i <= Len(a) /\ (k + 1 - i) <= Len(b) THEN a[i] * b[k + 1 - i] ELSE 0)
         + ColSum(a, b, k, i + 1)

\* a * b modulo 256^len
MulW(a, b, len) == Carry([k \in 1..len |-> ColSum(a, b, k, 1)], 1, 0)

RECURSIVE GeqFrom(_, _, _)
GeqFrom(a, b, i) ==
    IF i = 0 THEN TRUE
    ELSE IF a[i] # b[i] THEN a[i] > b[i]
    ELSE GeqFrom(a, b, i - 1)

\* a >= b for words of the same width
GeqW(a, b) == GeqFrom(a, b, Len(a))

\* a - b for a >= b (two's complement addition)
SubW(a, b) == Carry([i \in 1..Len(a) |-> a[i] + 255 - b[i]], 1, 1)

\* 2 * a + bit, modulo the width
DblW(a, bit) == Carry([i \in 1..Len(a) |-> 2 * a[i]], 1, bit)

\* bit j (0 = least significant) of a word
BitAt(a, j) == (a[(j \div 8) + 1] \div Pow2(j % 8)) % 2

RECURSIVE DivStep(_, _, _, _, _)
\* restoring long division, one dividend bit per step, most significant first
\* (the test on Len(q) only makes the quotient so far be computed at each step)
DivStep(p, d, j, r, q) ==
    IF j < 0 \/ Len(q) = 0 \/ Len(r) = 0 THEN q
    ELSE LET r2 == DblW(r, BitAt(p, j))
             ge == GeqW(r2, d)
         IN  DivStep(p, d, j - 1,
                     IF ge THEN SubW(r2, d) ELSE r2,
                     DblW(q, IF ge THEN 1 ELSE 0))

\* div_u64(u64 dividend, u32 divisor) -> u64 quotient (divisor # 0)
div_u64(dividend, divisor) ==
    DivStep(dividend, Resize(divisor, 5), 63, ToBytes(0, 5), ToBytes(0, 8))

\* faulty variant: the quotient is divided by 64
U32Div64(a) == (a[1] \div 64) + 4 * a[2] + 1024 * a[3] + 262144 * a[4]

\* a u32 divided by 128; the result is below 2^25
U32Div128(a) == (a[1] \div 128) + 2 * a[2] + 512 * a[3] + 131072 * a[4]

Abs(x) == IF x < 0 THEN -x ELSE x

(***************************************************************************)
(* The Fs estimator.                                                       *)
(***************************************************************************)
INIT_FIFO_STATE == 64

supported_fs == <<32000, 44100, 48000, 88200, 96000, 176400, 192000, 768000, -1>>

RECURSIVE is_validfs_loop(_, _)
is_validfs_loop(fs, i) ==
    IF supported_fs[i] > 0
    THEN IF fs = supported_fs[i] THEN TRUE ELSE is_validfs_loop(fs, i + 1)
    ELSE FALSE

\* faulty variant: the comparison written as an assignment, true at the first entry
is_validfs_assign(fs) == supported_fs[1] > 0

is_validfs(fs) == is_validfs_loop(fs, 1)

RECURSIVE find_closest_strict_loop(_, _)
\* faulty variant: the window excludes its edges
find_closest_strict_loop(fs, i) ==
    IF supported_fs[i] > 0
    THEN IF Abs(fs - supported_fs[i]) < 2000
         THEN supported_fs[i]
         ELSE find_closest_strict_loop(fs, i + 1)
    ELSE supported_fs[i]

RECURSIVE find_closest_or_raw_loop(_, _)
\* faulty variant: a rate in no window is handed back as it came
find_closest_or_raw_loop(fs, i) ==
    IF supported_fs[i] > 0
    THEN IF Abs(fs - supported_fs[i]) <= 2000
         THEN supported_fs[i]
         ELSE find_closest_or_raw_loop(fs, i + 1)
    ELSE fs

RECURSIVE find_closest_fs_loop(_, _)
find_closest_fs_loop(fs, i) ==
    IF supported_fs[i] > 0
    THEN IF Abs(fs - supported_fs[i]) <= 2000
         THEN supported_fs[i]
         ELSE find_closest_fs_loop(fs, i + 1)
    ELSE supported_fs[i]

\* returns the first table entry within 2000 Hz of fs, and the table's
\* terminator (-1) when there is none
rk628_hdmirx_audio_find_closest_fs(fs) == find_closest_fs_loop(fs, 1)

\* the rate handed to the snapping step when CTS is not 0: clkrate is masked
\* to 16 bits and multiplied in 32 bits, the product with N is 64 bits wide,
\* and the quotient of div_u64() is stored in the u32 fs_audio before the
\* division by 128
audio_fs_raw(rd) ==
    LET clkrate == [i \in 1..4 |-> IF i <= 2 THEN rd.clkrate[i] ELSE 0]
        tmdsclk == Resize(MulW(clkrate, U32(49500), 4), 8)
    IN  U32Div128(Resize(div_u64(MulW(tmdsclk, rd.n, 8), rd.cts), 4))

\* faulty variant: the initial value of fs_audio is a default rate instead of 0
audio_fs_default_rate(rd) ==
    LET fs0 == 48000
        fs1 == IF rd.cts # U32(0)
               THEN rk628_hdmirx_audio_find_closest_fs(audio_fs_raw(rd))
               ELSE fs0
    IN  IF is_validfs(fs1) THEN fs1 ELSE 0

\* rd is what the three register reads return: HDMI_RX_HDMI_CKM_RESULT,
\* HDMI_RX_PDEC_ACR_CTS and HDMI_RX_PDEC_ACR_N, each a u32
_rk628_hdmirx_audio_fs(rd) ==
    LET fs0 == 0
        fs1 == IF rd.cts # U32(0)
               THEN rk628_hdmirx_audio_find_closest_fs(audio_fs_raw(rd))
               ELSE fs0
    IN  IF is_validfs(fs1) THEN fs1 ELSE 0


(***************************************************************************)
(* Hardware readings.  A reading rd is what the three estimator registers  *)
(* return at one moment.  Readings is what the rate tracker may see at a   *)
(* register read: 44100 Hz, 48000 Hz, no regeneration packets (CTS = 0)    *)
(* and a rate of about 60000 Hz that is in no window of the table.         *)
(***************************************************************************)
Rd(clkrate, cts, n) == [clkrate |-> U32(clkrate), cts |-> U32(cts), n |-> U32(n)]

Readings == {Rd(3000, 148500, 5644), Rd(3000, 148500, 6144),
             Rd(3000, 0, 6144), Rd(3000, 148500, 7680)}


ACR_N_CHG_ICLR    == "N_CHG"
ACR_CTS_CHG_ICLR  == "CTS_CHG"
AFIF_OVERFL_ISTS  == "OVERFL"
AFIF_UNDERFL_ISTS == "UNDERFL"

CtsnMask == {ACR_N_CHG_ICLR, ACR_CTS_CHG_ICLR}
FifoMask == {AFIF_OVERFL_ISTS, AFIF_UNDERFL_ISTS}

\* the fill levels HDMI_RX_AUD_FIFO_FILLSTS1 may read in the model: empty, and
\* levels around the reference level and its dead band of 16
InitLevel == INIT_FIFO_STATE * 4

Levels == {0, InitLevel - 17, InitLevel - 16, InitLevel, InitLevel + 16, InitLevel + 20}

\* what HDMI_RX_AUD_FIFO_ISTS may read: no error bit, one, or both
FifoReads == {{}, {AFIF_OVERFL_ISTS}, {AFIF_UNDERFL_ISTS}, FifoMask}

\* the value standing for a register that the path taken does not read (the
\* handlers below take every read as an argument)
NotRead == {0}

\* the model lets the clock drift by at most MaxNudge steps of 10 Hz from
\* the rate last committed
MaxNudge == 1

RK628D_VERSION == "RK628D"
RK628F_VERSION == "RK628F"

(***************************************************************************)
(* The state.                                                              *)
(*   version  rk628->version: RK628F and later poll (tick v2), older chips *)
(*            are interrupt driven (tick v1 and the rate-change work)      *)
(*   aif      struct rk628_audioinfo, with its audio_state                 *)
(*   work     the two delayed works: pending (timer armed or queued),      *)
(*            running (the work function executes), canceling (a           *)
(*            cancel_delayed_work_sync() owns the work and waits for it)   *)
(*   mutex    the owner of *confctl_mutex                                  *)
(*   tick     the locals the v1 tick reads on entry (init_state, pre_state)*)
(*   destroy  the position of rk628_hdmirx_audio_destroy()                 *)
(* History variables, which no handler reads:                              *)
(*   watch    which history a behaviour keeps (fixed by the initial state) *)
(*   obs      what the handler that ran last did: the calls it made and    *)
(*            the values it read, restricted to the fields of the watch    *)
(*   hist     the progress of the notification or tick sequence watched    *)
(*   call     the last call of a pure function and its result              *)
(* Fixed by the initial state:                                             *)
(*   hw       what _rk628_hdmirx_audio_fs() returns at each reading the    *)
(*            registers can present                                        *)
(***************************************************************************)
VARIABLES version, aif, work, mutex, tick, destroy, watch, obs, hist, call, hw

vars == <<version, aif, work, mutex, tick, destroy, watch, obs, hist, call, hw>>

\* _rk628_hdmirx_audio_fs() called while the registers read rd
HwFs(rd) == hw[rd]

IsV2 == version = RK628F_VERSION

NoObs(op) ==
    [op |-> op, fifo_init |-> 0, fifo_initd |-> 0, glitch_initd |-> 0,
     inc_rate |-> 0, set_fs |-> 0, enable |-> 0, sched_rc |-> 0, delay |-> 0,
     fs |-> 0, read_fill |-> FALSE, fill |-> 0, init_state |-> 0, pre_state |-> 0,
     ints |-> {}, confirmed |-> FALSE, seen |-> {}, fs0 |-> 0, changed |-> {},
     sched_audio |-> 0, steady |-> FALSE, dclk |-> 0, fifo_int0 |-> FALSE]

\* the fields of obs each watch keeps
Keep(w) ==
    CASE w = "nudge"  -> {"op", "read_fill", "fill", "init_state", "pre_state", "inc_rate"}
      [] w = "present" -> {"op", "read_fill", "fill", "inc_rate", "set_fs"}
      [] w = "sched" -> {"op", "sched_audio", "delay"}
      [] w = "clock" -> {"op", "set_fs", "inc_rate", "dclk", "fs0"}
      [] w = "rate" -> {"op", "fs"}
      [] w = "first" -> {"op"}
      [] w = "resync" -> {"op", "fifo_int0", "fs", "set_fs", "glitch_initd", "fill"}
      [] w = "reinit" -> {"op", "fifo_init", "fifo_initd"}
      [] w = "steady" -> {"op", "steady", "fill", "init_state", "pre_state", "dclk",
                          "fs0"}
      [] w = "glitch" -> {"op", "confirmed", "seen"}
      [] w = "tick"   -> {"op", "fs", "fs0", "ints", "changed", "set_fs",
                          "fifo_init", "inc_rate", "delay"}
      [] w = "entry"  -> {"op", "changed", "set_fs", "fifo_init", "fifo_initd",
                          "inc_rate"}
      [] w = "enable" -> {"op", "fs", "set_fs", "enable"}
      [] OTHER        -> {}

\* the handlers each watch observes
Ops(w) ==
    CASE w = "tick"   -> {"tick"}
      [] w = "steady" -> {"tick"}
      [] w = "present" -> {"tick"}
      [] w = "sched" -> {"tick"}
      [] w = "first" -> {"setup"}
      [] w = "resync" -> {"rate_change"}
      [] w = "entry"  -> {"setup", "isr_ctsn", "isr_fifoints"}
      [] w = "enable" -> {"tick", "rate_change"}
      [] OTHER        -> {"setup", "isr_ctsn", "isr_fifoints", "tick", "rate_change"}

\* the steady watch observes the ticks in the steady state only
Observe(o) ==
    LET K == Keep(watch)
        none == NoObs("none")
    IN  IF o.op \in Ops(watch) /\ (watch = "steady" => o.steady)
        THEN [f \in DOMAIN none |-> IF f \in K THEN o[f] ELSE none[f]]
        ELSE none

NoHist == [stage |-> 0, disp |-> 0, initd |-> 0, d1 |-> 0, d2 |-> 0, seen |-> {}]

\* the fields the rate tracking loop is about: the tracked rate, the clock
\* rate, the two FIFO levels and the two audio flags
Tracked(a) ==
    [fs_audio |-> a.audio_state.fs_audio,
     hdmirx_aud_clkrate |-> a.audio_state.hdmirx_aud_clkrate,
     init_state |-> a.audio_state.init_state,
     pre_state |-> a.audio_state.pre_state,
     audio_enable |-> a.audio_state.audio_enable,
     audio_present |-> a.audio_present]

\* the tracked fields of the rk628_audioinfo a1 that differ from those of a0
Changed(a0, a1) == {f \in DOMAIN Tracked(a0) : Tracked(a0)[f] # Tracked(a1)[f]}

\* what a handler that ended in context c did, with fs_audio and fifo_int as
\* they were before, the fields it changed, by how much it moved the audio
\* clock, and whether it was a tick in the steady state: the fill level was
\* read and the estimate is a supported rate within 1000 Hz of the tracked one
\* (fields the watch does not keep are not worked out)
Effect(c) ==
    LET K == Keep(watch)
    IN  [c.obs EXCEPT
           !.fs0 = aif.audio_state.fs_audio,
           !.fifo_int0 = aif.audio_state.fifo_int,
           !.changed = IF "changed" \in K THEN Changed(aif, c.aif) ELSE {},
           !.dclk = c.aif.audio_state.hdmirx_aud_clkrate
                    - aif.audio_state.hdmirx_aud_clkrate,
           !.steady = /\ "steady" \in K
                      /\ c.obs.read_fill
                      /\ is_validfs(c.obs.fs)
                      /\ Abs(c.obs.fs - aif.audio_state.fs_audio) <= 1000]

\* the context a handler works on
Ctx(op) == [aif |-> aif, work |-> work, obs |-> NoObs(op)]

(***************************************************************************)
(* Workqueue: schedule_delayed_work() queues the work unless it is already *)
(* pending; a work being cancelled synchronously stays owned by the        *)
(* canceller, so queueing it fails too.                                    *)
(***************************************************************************)
\* faulty variant: a work being cancelled can still be queued
schedule_delayed_work_while_cancelled(c, w, delay) ==
    LET c1 == IF w = "audio"
              THEN [c EXCEPT !.obs.delay = delay, !.obs.sched_audio = @ + 1]
              ELSE [c EXCEPT !.obs.sched_rc = @ + 1]
    IN  [c1 EXCEPT !.work[w].pending = TRUE]

schedule_delayed_work(c, w, delay) ==
    LET c1 == IF w = "audio"
              THEN [c EXCEPT !.obs.delay = delay, !.obs.sched_audio = @ + 1]
              ELSE [c EXCEPT !.obs.sched_rc = @ + 1]
    IN  IF c.work[w].pending \/ c.work[w].canceling
        THEN c1
        ELSE [c1 EXCEPT !.work[w].pending = TRUE]

(***************************************************************************)
(* FIFO controller and clock.                                              *)
(***************************************************************************)
\* faulty variant: the levels are set to the threshold, not to four times it
fifo_init_base_level(c) ==
    [c EXCEPT !.aif.audio_state.init_state = INIT_FIFO_STATE,
              !.aif.audio_state.pre_state = INIT_FIFO_STATE,
              !.obs.fifo_init = @ + 1]

\* faulty variant: pre_state takes the init_state of before the call
fifo_init_prev_from_old(c) ==
    [c EXCEPT !.aif.audio_state.init_state = INIT_FIFO_STATE * 4,
              !.aif.audio_state.pre_state = c.aif.audio_state.init_state,
              !.obs.fifo_init = @ + 1]

rk628_hdmirx_audio_fifo_init(c) ==
    [c EXCEPT !.aif.audio_state.init_state = INIT_FIFO_STATE * 4,
              !.aif.audio_state.pre_state = INIT_FIFO_STATE * 4,
              !.obs.fifo_init = @ + 1]

\* faulty variant: only the reference level is reset
fifo_initd_keeps_pre_state(c) ==
    [c EXCEPT !.aif.audio_state.init_state = INIT_FIFO_STATE * 4,
              !.obs.fifo_initd = @ + 1]

rk628_hdmirx_audio_fifo_initd(c) ==
    [c EXCEPT !.aif.audio_state.init_state = INIT_FIFO_STATE * 4,
              !.aif.audio_state.pre_state = INIT_FIFO_STATE * 4,
              !.obs.fifo_initd = @ + 1]

rk628_hdmirx_audio_clk_set_rate(c, rate) ==
    [c EXCEPT !.aif.audio_state.hdmirx_aud_clkrate = rate]

\* faulty variant: the step is applied with the wrong sign
clk_inc_rate_wrong_sign(c, dis) ==
    [c EXCEPT !.aif.audio_state.hdmirx_aud_clkrate = @ - dis,
              !.obs.inc_rate = @ + dis]

rk628_hdmirx_audio_clk_inc_rate(c, dis) ==
    [c EXCEPT !.aif.audio_state.hdmirx_aud_clkrate = @ + dis,
              !.obs.inc_rate = @ + dis]

\* faulty variant: the clock is set to 64 times the rate
set_fs_half_clock(c, fs_audio) ==
    [c EXCEPT !.aif.audio_state.hdmirx_aud_clkrate = fs_audio * 64,
              !.aif.audio_state.fs_audio = fs_audio,
              !.obs.set_fs = @ + 1]

rk628_hdmirx_audio_set_fs(c, fs_audio) ==
    [c EXCEPT !.aif.audio_state.hdmirx_aud_clkrate = fs_audio * 128,
              !.aif.audio_state.fs_audio = fs_audio,
              !.obs.set_fs = @ + 1]

\* fifo_ints is what HDMI_RX_AUD_FIFO_ISTS reads (its bits 0x18 are the
\* overflow and underflow bits)
rk628_hdmirx_audio_enable(c, fifo_ints) ==
    LET c1 == IF fifo_ints \cap FifoMask = FifoMask
              THEN rk628_hdmirx_audio_fifo_initd(c)
              ELSE IF fifo_ints \cap FifoMask # {}
              THEN rk628_hdmirx_audio_fifo_init(c)
              ELSE c
    IN  [c1 EXCEPT !.aif.audio_state.audio_enable = TRUE,
                   !.aif.fifo_ints_en = TRUE,
                   !.obs.enable = @ + 1]

\* faulty variant: the dead band is applied with >= instead of >
fifo_above_incl(cur, init_state, pre_state) ==
    cur - init_state >= 16 /\ cur - pre_state > 0

\* the FIFO is above its reference level by more than the dead band, and rising
fifo_above(cur, init_state, pre_state) ==
    cur - init_state > 16 /\ cur - pre_state > 0

\* faulty variant: the falling trend is not required
fifo_below_any_trend(cur, init_state, pre_state) ==
    cur - init_state < -16

\* the FIFO is below its reference level by more than the dead band, and falling
fifo_below(cur, init_state, pre_state) ==
    cur - init_state < -16 /\ cur - pre_state < 0

\* faulty variant: reports the enable flag
audio_present_from_enable(a) == a.audio_state.audio_enable

\* what a caller holding a handle is told the sample rate is
rk628_hdmirx_audio_fs(a) == a.audio_state.fs_audio

\* what a caller holding a handle is told about audio being present
rk628_hdmirx_audio_present(a) == a.audio_present

(***************************************************************************)
(* The handlers, as functions of the context and of what their register    *)
(* reads return.                                                           *)
(***************************************************************************)

\* faulty variant: an unsupported estimate does not lengthen the delay
tick_v2_never_backs_off(c, rd, fifo_ints, fifo_status) ==
    LET fs_audio == HwFs(rd)
        c0 == [c EXCEPT !.obs.fs = fs_audio, !.obs.ints = fifo_ints \cap FifoMask]
        audio_state == c.aif.audio_state
    IN  IF fifo_ints \cap FifoMask # {}
        THEN LET c1 == IF is_validfs(fs_audio)
                       THEN rk628_hdmirx_audio_set_fs(c0, fs_audio)
                       ELSE c0
                 c2 == rk628_hdmirx_audio_fifo_init(c1)
                 c3 == [c2 EXCEPT !.aif.audio_state.pre_state = 0]
             IN  schedule_delayed_work(c3, "audio", 500)
        ELSE
        LET init_state == audio_state.init_state
            pre_state  == audio_state.pre_state
            c1 == [c0 EXCEPT !.obs.read_fill = TRUE, !.obs.fill = fifo_status,
                             !.obs.init_state = init_state,
                             !.obs.pre_state = pre_state]
        IN  IF is_validfs(fs_audio) /\ Abs(fs_audio - audio_state.fs_audio) > 1000
            THEN LET c2 == rk628_hdmirx_audio_set_fs(c1, fs_audio)
                     c3 == rk628_hdmirx_audio_fifo_init(c2)
                     c4 == [c3 EXCEPT !.aif.audio_state.pre_state = 0]
                 IN  schedule_delayed_work(c4, "audio", 500)
            ELSE LET delay == 500
                     c2 == IF fifo_status # 0
                           THEN LET c21 == [c1 EXCEPT !.aif.audio_present = TRUE]
                                IN  IF fifo_above(fifo_status, init_state, pre_state)
                                    THEN rk628_hdmirx_audio_clk_inc_rate(c21, 10)
                                    ELSE IF fifo_below(fifo_status, init_state, pre_state)
                                    THEN rk628_hdmirx_audio_clk_inc_rate(c21, -10)
                                    ELSE c21
                           ELSE [c1 EXCEPT !.aif.audio_present = FALSE]
                     c3 == [c2 EXCEPT !.aif.audio_state.pre_state = fifo_status]
                 IN  schedule_delayed_work(c3, "audio", delay)

\* faulty variant: a format change does not reset pre_state to 0
tick_v2_restart_keeps_pre_state(c, rd, fifo_ints, fifo_status) ==
    LET fs_audio == HwFs(rd)
        c0 == [c EXCEPT !.obs.fs = fs_audio, !.obs.ints = fifo_ints \cap FifoMask]
        audio_state == c.aif.audio_state
    IN  IF fifo_ints \cap FifoMask # {}
        THEN LET c1 == IF is_validfs(fs_audio)
                       THEN rk628_hdmirx_audio_set_fs(c0, fs_audio)
                       ELSE c0
                 c2 == rk628_hdmirx_audio_fifo_init(c1)
                 c3 == [c2 EXCEPT !.aif.audio_state.pre_state = 0]
             IN  schedule_delayed_work(c3, "audio", 500)
        ELSE
        LET init_state == audio_state.init_state
            pre_state  == audio_state.pre_state
            c1 == [c0 EXCEPT !.obs.read_fill = TRUE, !.obs.fill = fifo_status,
                             !.obs.init_state = init_state,
                             !.obs.pre_state = pre_state]
        IN  IF is_validfs(fs_audio) /\ Abs(fs_audio - audio_state.fs_audio) > 1000
            THEN LET c2 == rk628_hdmirx_audio_set_fs(c1, fs_audio)
                     c3 == rk628_hdmirx_audio_fifo_init(c2)
                 IN  schedule_delayed_work(c3, "audio", 500)
            ELSE LET delay == IF ~is_validfs(fs_audio) THEN 1000 ELSE 500
                     c2 == IF fifo_status # 0
                           THEN LET c21 == [c1 EXCEPT !.aif.audio_present = TRUE]
                                IN  IF fifo_above(fifo_status, init_state, pre_state)
                                    THEN rk628_hdmirx_audio_clk_inc_rate(c21, 10)
                                    ELSE IF fifo_below(fifo_status, init_state, pre_state)
                                    THEN rk628_hdmirx_audio_clk_inc_rate(c21, -10)
                                    ELSE c21
                           ELSE [c1 EXCEPT !.aif.audio_present = FALSE]
                     c3 == [c2 EXCEPT !.aif.audio_state.pre_state = fifo_status]
                 IN  schedule_delayed_work(c3, "audio", delay)

\* the polled tick (RK628F and later): rd, fifo_ints and fifo_status are the
\* reads of the estimator registers, HDMI_RX_AUD_FIFO_ISTS and
\* HDMI_RX_AUD_FIFO_FILLSTS1.  (The tick's last step, switching the I2S data
\* output on HDMI_RX_AUD_SPARE, writes a register only and is left out.)
rk628_csi_delayed_work_audio_v2(c, rd, fifo_ints, fifo_status) ==
    LET fs_audio == HwFs(rd)
        c0 == [c EXCEPT !.obs.fs = fs_audio, !.obs.ints = fifo_ints \cap FifoMask]
        audio_state == c.aif.audio_state
    IN  IF fifo_ints \cap FifoMask # {}
        THEN LET c1 == IF is_validfs(fs_audio)
                       THEN rk628_hdmirx_audio_set_fs(c0, fs_audio)
                       ELSE c0
                 c2 == rk628_hdmirx_audio_fifo_init(c1)
                 c3 == [c2 EXCEPT !.aif.audio_state.pre_state = 0]
             IN  schedule_delayed_work(c3, "audio", 500)
        ELSE
        LET init_state == audio_state.init_state
            pre_state  == audio_state.pre_state
            c1 == [c0 EXCEPT !.obs.read_fill = TRUE, !.obs.fill = fifo_status,
                             !.obs.init_state = init_state,
                             !.obs.pre_state = pre_state]
        IN  IF is_validfs(fs_audio) /\ Abs(fs_audio - audio_state.fs_audio) > 1000
            THEN LET c2 == rk628_hdmirx_audio_set_fs(c1, fs_audio)
                     c3 == rk628_hdmirx_audio_fifo_init(c2)
                     c4 == [c3 EXCEPT !.aif.audio_state.pre_state = 0]
                 IN  schedule_delayed_work(c4, "audio", 500)
            ELSE LET delay == IF ~is_validfs(fs_audio) THEN 1000 ELSE 500
                     c2 == IF fifo_status # 0
                           THEN LET c21 == [c1 EXCEPT !.aif.audio_present = TRUE]
                                IN  IF fifo_above(fifo_status, init_state, pre_state)
                                    THEN rk628_hdmirx_audio_clk_inc_rate(c21, 10)
                                    ELSE IF fifo_below(fifo_status, init_state, pre_state)
                                    THEN rk628_hdmirx_audio_clk_inc_rate(c21, -10)
                                    ELSE c21
                           ELSE [c1 EXCEPT !.aif.audio_present = FALSE]
                     c3 == [c2 EXCEPT !.aif.audio_state.pre_state = fifo_status]
                 IN  schedule_delayed_work(c3, "audio", delay)

\* faulty variant: an unsupported estimate ends the tick without requeueing it
tick_v1_invalid_stops(c, loc, rd, fifo_ints, cur_state) ==
    LET fs_audio == HwFs(rd)
        c0 == [c EXCEPT !.obs.fs = fs_audio]
        audio_state == c.aif.audio_state
    IN  IF ~is_validfs(fs_audio)
        THEN c0
        ELSE IF ~audio_state.audio_enable
        THEN LET c1 == rk628_hdmirx_audio_set_fs(c0, fs_audio)
                 c2 == rk628_hdmirx_audio_enable(
                          [c1 EXCEPT !.obs.ints = fifo_ints \cap FifoMask], fifo_ints)
             IN  schedule_delayed_work(c2, "audio", 1000)
        ELSE LET c1 == IF Abs(fs_audio - audio_state.fs_audio) > 1000
                       THEN rk628_hdmirx_audio_set_fs(c0, fs_audio)
                       ELSE c0
                 c2 == [c1 EXCEPT !.aif.audio_present = (cur_state # 0),
                                  !.obs.read_fill = TRUE, !.obs.fill = cur_state,
                                  !.obs.init_state = loc.init_state,
                                  !.obs.pre_state = loc.pre_state]
                 c3 == IF fifo_above(cur_state, loc.init_state, loc.pre_state)
                       THEN rk628_hdmirx_audio_clk_inc_rate(c2, 10)
                       ELSE IF cur_state # 0
                               /\ fifo_below(cur_state, loc.init_state, loc.pre_state)
                       THEN rk628_hdmirx_audio_clk_inc_rate(c2, -10)
                       ELSE c2
                 c4 == [c3 EXCEPT !.aif.audio_state.pre_state = cur_state]
             IN  schedule_delayed_work(c4, "audio", 1000)

\* the interrupt-driven tick (before RK628F): loc holds init_state and
\* pre_state as read on entry; fifo_ints is the read in audio_enable()
rk628_csi_delayed_work_audio(c, loc, rd, fifo_ints, cur_state) ==
    LET fs_audio == HwFs(rd)
        c0 == [c EXCEPT !.obs.fs = fs_audio]
        audio_state == c.aif.audio_state
    IN  IF ~is_validfs(fs_audio)
        THEN schedule_delayed_work(c0, "audio", 1000)
        ELSE IF ~audio_state.audio_enable
        THEN LET c1 == rk628_hdmirx_audio_set_fs(c0, fs_audio)
                 c2 == rk628_hdmirx_audio_enable(
                          [c1 EXCEPT !.obs.ints = fifo_ints \cap FifoMask], fifo_ints)
             IN  schedule_delayed_work(c2, "audio", 1000)
        ELSE LET c1 == IF Abs(fs_audio - audio_state.fs_audio) > 1000
                       THEN rk628_hdmirx_audio_set_fs(c0, fs_audio)
                       ELSE c0
                 c2 == [c1 EXCEPT !.aif.audio_present = (cur_state # 0),
                                  !.obs.read_fill = TRUE, !.obs.fill = cur_state,
                                  !.obs.init_state = loc.init_state,
                                  !.obs.pre_state = loc.pre_state]
                 c3 == IF fifo_above(cur_state, loc.init_state, loc.pre_state)
                       THEN rk628_hdmirx_audio_clk_inc_rate(c2, 10)
                       ELSE IF cur_state # 0
                               /\ fifo_below(cur_state, loc.init_state, loc.pre_state)
                       THEN rk628_hdmirx_audio_clk_inc_rate(c2, -10)
                       ELSE c2
                 c4 == [c3 EXCEPT !.aif.audio_state.pre_state = cur_state]
             IN  schedule_delayed_work(c4, "audio", 1000)

\* faulty variant: the glitch branch of the resync pass stops the audio
rate_change_glitch_stops_audio(c, rd, fifo_ints, fifo_fillsts) ==
    LET fs_audio == HwFs(rd)
        c0 == [c EXCEPT !.obs.fs = fs_audio]
        c1 == IF c0.aif.audio_state.ctsn_flag = CtsnMask
              THEN LET a == [c0 EXCEPT !.aif.audio_state.ctsn_flag = {}]
                       b == IF is_validfs(fs_audio)
                            THEN rk628_hdmirx_audio_enable(
                                   rk628_hdmirx_audio_set_fs(
                                     [a EXCEPT !.obs.ints = fifo_ints \cap FifoMask],
                                     fs_audio),
                                   fifo_ints)
                            ELSE a
                   IN  schedule_delayed_work(b, "audio", 1000)
              ELSE c0
    IN  IF c1.aif.audio_state.fifo_int
        THEN LET a == [c1 EXCEPT !.aif.audio_state.fifo_int = FALSE,
                                !.aif.audio_state.audio_enable = FALSE]
                 b == IF is_validfs(fs_audio)
                      THEN rk628_hdmirx_audio_set_fs(a, fs_audio)
                      ELSE a
                 d == [b EXCEPT !.obs.read_fill = TRUE, !.obs.fill = fifo_fillsts]
             IN  \* both arms of the test on fifo_fillsts make the same call
                 [rk628_hdmirx_audio_fifo_initd(d) EXCEPT !.obs.glitch_initd = @ + 1]
        ELSE c1

\* faulty variant: an empty FIFO is not reinitialised after a glitch
rate_change_skips_reinit_when_empty(c, rd, fifo_ints, fifo_fillsts) ==
    LET fs_audio == HwFs(rd)
        c0 == [c EXCEPT !.obs.fs = fs_audio]
        c1 == IF c0.aif.audio_state.ctsn_flag = CtsnMask
              THEN LET a == [c0 EXCEPT !.aif.audio_state.ctsn_flag = {}]
                       b == IF is_validfs(fs_audio)
                            THEN rk628_hdmirx_audio_enable(
                                   rk628_hdmirx_audio_set_fs(
                                     [a EXCEPT !.obs.ints = fifo_ints \cap FifoMask],
                                     fs_audio),
                                   fifo_ints)
                            ELSE a
                   IN  schedule_delayed_work(b, "audio", 1000)
              ELSE c0
    IN  IF c1.aif.audio_state.fifo_int
        THEN LET a == [c1 EXCEPT !.aif.audio_state.fifo_int = FALSE]
                 b == IF is_validfs(fs_audio)
                      THEN rk628_hdmirx_audio_set_fs(a, fs_audio)
                      ELSE a
                 d == [b EXCEPT !.obs.read_fill = TRUE, !.obs.fill = fifo_fillsts]
             IN  IF fifo_fillsts # 0
                 THEN [rk628_hdmirx_audio_fifo_initd(d) EXCEPT !.obs.glitch_initd = @ + 1]
                 ELSE d
        ELSE c1

\* faulty variant: the glitch branch commits the estimate whatever it is
rate_change_commits_any_estimate(c, rd, fifo_ints, fifo_fillsts) ==
    LET fs_audio == HwFs(rd)
        c0 == [c EXCEPT !.obs.fs = fs_audio]
        c1 == IF c0.aif.audio_state.ctsn_flag = CtsnMask
              THEN LET a == [c0 EXCEPT !.aif.audio_state.ctsn_flag = {}]
                       b == IF is_validfs(fs_audio)
                            THEN rk628_hdmirx_audio_enable(
                                   rk628_hdmirx_audio_set_fs(
                                     [a EXCEPT !.obs.ints = fifo_ints \cap FifoMask],
                                     fs_audio),
                                   fifo_ints)
                            ELSE a
                   IN  schedule_delayed_work(b, "audio", 1000)
              ELSE c0
    IN  IF c1.aif.audio_state.fifo_int
        THEN LET a == [c1 EXCEPT !.aif.audio_state.fifo_int = FALSE]
                 b == rk628_hdmirx_audio_set_fs(a, fs_audio)
                 d == [b EXCEPT !.obs.read_fill = TRUE, !.obs.fill = fifo_fillsts]
             IN  \* both arms of the test on fifo_fillsts make the same call
                 [rk628_hdmirx_audio_fifo_initd(d) EXCEPT !.obs.glitch_initd = @ + 1]
        ELSE c1

\* faulty variant: the tick is queued only with a supported estimate
rate_change_requeues_on_valid_only(c, rd, fifo_ints, fifo_fillsts) ==
    LET fs_audio == HwFs(rd)
        c0 == [c EXCEPT !.obs.fs = fs_audio]
        c1 == IF c0.aif.audio_state.ctsn_flag = CtsnMask
              THEN LET a == [c0 EXCEPT !.aif.audio_state.ctsn_flag = {}]
                       b == IF is_validfs(fs_audio)
                            THEN rk628_hdmirx_audio_enable(
                                   rk628_hdmirx_audio_set_fs(
                                     [a EXCEPT !.obs.ints = fifo_ints \cap FifoMask],
                                     fs_audio),
                                   fifo_ints)
                            ELSE a
                   IN  IF is_validfs(fs_audio)
                       THEN schedule_delayed_work(b, "audio", 1000)
                       ELSE b
              ELSE c0
    IN  IF c1.aif.audio_state.fifo_int
        THEN LET a == [c1 EXCEPT !.aif.audio_state.fifo_int = FALSE]
                 b == IF is_validfs(fs_audio)
                      THEN rk628_hdmirx_audio_set_fs(a, fs_audio)
                      ELSE a
                 d == [b EXCEPT !.obs.read_fill = TRUE, !.obs.fill = fifo_fillsts]
             IN  \* both arms of the test on fifo_fillsts make the same call
                 [rk628_hdmirx_audio_fifo_initd(d) EXCEPT !.obs.glitch_initd = @ + 1]
        ELSE c1

\* the resync pass, between mutex_lock() and mutex_unlock(): fifo_ints is the
\* read in audio_enable(), fifo_fillsts that of HDMI_RX_AUD_FIFO_FILLSTS1
rk628_csi_delayed_work_audio_rate_change(c, rd, fifo_ints, fifo_fillsts) ==
    LET fs_audio == HwFs(rd)
        c0 == [c EXCEPT !.obs.fs = fs_audio]
        c1 == IF c0.aif.audio_state.ctsn_flag = CtsnMask
              THEN LET a == [c0 EXCEPT !.aif.audio_state.ctsn_flag = {}]
                       b == IF is_validfs(fs_audio)
                            THEN rk628_hdmirx_audio_enable(
                                   rk628_hdmirx_audio_set_fs(
                                     [a EXCEPT !.obs.ints = fifo_ints \cap FifoMask],
                                     fs_audio),
                                   fifo_ints)
                            ELSE a
                   IN  schedule_delayed_work(b, "audio", 1000)
              ELSE c0
    IN  IF c1.aif.audio_state.fifo_int
        THEN LET a == [c1 EXCEPT !.aif.audio_state.fifo_int = FALSE]
                 b == IF is_validfs(fs_audio)
                      THEN rk628_hdmirx_audio_set_fs(a, fs_audio)
                      ELSE a
                 d == [b EXCEPT !.obs.read_fill = TRUE, !.obs.fill = fifo_fillsts]
             IN  \* both arms of the test on fifo_fillsts make the same call
                 [rk628_hdmirx_audio_fifo_initd(d) EXCEPT !.obs.glitch_initd = @ + 1]
        ELSE c1

\* faulty variant: setup() leaves audio_enable as it is
setup_keeps_audio_enable(c, v2) ==
    LET c1 == [c EXCEPT !.aif.audio_state.ctsn_flag = {},
                        !.aif.audio_state.fs_audio = 0,
                        !.aif.audio_state.pre_state = 0,
                        !.aif.audio_state.init_state = INIT_FIFO_STATE * 4,
                        !.aif.audio_state.fifo_int = FALSE,
                        !.aif.fifo_ints_en = FALSE,
                        !.aif.ctsn_ints_en = FALSE]
        c2 == rk628_hdmirx_audio_clk_set_rate(c1, 5644800)
    IN  IF v2
        THEN schedule_delayed_work(c2, "audio", 1000)
        ELSE [c2 EXCEPT !.aif.ctsn_ints_en = TRUE]

\* faulty variant: setup() leaves ctsn_flag as it is
setup_keeps_ctsn_flag(c, v2) ==
    LET c1 == [c EXCEPT !.aif.audio_state.fs_audio = 0,
                        !.aif.audio_state.pre_state = 0,
                        !.aif.audio_state.init_state = INIT_FIFO_STATE * 4,
                        !.aif.audio_state.fifo_int = FALSE,
                        !.aif.audio_state.audio_enable = FALSE,
                        !.aif.fifo_ints_en = FALSE,
                        !.aif.ctsn_ints_en = FALSE]
        c2 == rk628_hdmirx_audio_clk_set_rate(c1, 5644800)
    IN  IF v2
        THEN schedule_delayed_work(c2, "audio", 1000)
        ELSE [c2 EXCEPT !.aif.ctsn_ints_en = TRUE]

rk628_hdmirx_audio_setup(c, v2) ==
    LET c1 == [c EXCEPT !.aif.audio_state.ctsn_flag = {},
                        !.aif.audio_state.fs_audio = 0,
                        !.aif.audio_state.pre_state = 0,
                        !.aif.audio_state.init_state = INIT_FIFO_STATE * 4,
                        !.aif.audio_state.fifo_int = FALSE,
                        !.aif.audio_state.audio_enable = FALSE,
                        !.aif.fifo_ints_en = FALSE,
                        !.aif.ctsn_ints_en = FALSE]
        c2 == rk628_hdmirx_audio_clk_set_rate(c1, 5644800)
    IN  IF v2
        THEN schedule_delayed_work(c2, "audio", 1000)
        ELSE [c2 EXCEPT !.aif.ctsn_ints_en = TRUE]

\* faulty variant: the CTS/N interrupts stay enabled after the dispatch
isr_ctsn_stays_enabled(c, pdec_ints) ==
    LET flag == c.aif.audio_state.ctsn_flag \cup (pdec_ints \cap CtsnMask)
        c1 == [c EXCEPT !.aif.audio_state.ctsn_flag = flag, !.obs.ints = pdec_ints]
    IN  IF flag = CtsnMask
        THEN schedule_delayed_work(c1, "rate_change", 0)
        ELSE c1

\* faulty variant: the resync is dispatched as soon as either bit is set
isr_ctsn_any_bit(c, pdec_ints) ==
    LET flag == c.aif.audio_state.ctsn_flag \cup (pdec_ints \cap CtsnMask)
        c1 == [c EXCEPT !.aif.audio_state.ctsn_flag = flag, !.obs.ints = pdec_ints]
    IN  IF flag # {}
        THEN schedule_delayed_work([c1 EXCEPT !.aif.ctsn_ints_en = FALSE],
                                   "rate_change", 0)
        ELSE c1

rk628_csi_isr_ctsn(c, pdec_ints) ==
    LET flag == c.aif.audio_state.ctsn_flag
                  \cup (pdec_ints \cap {ACR_N_CHG_ICLR})
                  \cup (pdec_ints \cap {ACR_CTS_CHG_ICLR})
        c1 == [c EXCEPT !.aif.audio_state.ctsn_flag = flag, !.obs.ints = pdec_ints]
    IN  IF flag = CtsnMask
        THEN schedule_delayed_work([c1 EXCEPT !.aif.ctsn_ints_en = FALSE],
                                   "rate_change", 0)
        ELSE c1

\* faulty variant: the accumulator is not cleared when the glitch is confirmed
isr_fifoints_keeps_flag(c, fifo_ints) ==
    LET flag == c.aif.audio_state.fifo_flag \cup (fifo_ints \cap FifoMask)
        c1 == [c EXCEPT !.aif.audio_state.fifo_flag = flag, !.obs.ints = fifo_ints]
    IN  IF flag = FifoMask
        THEN schedule_delayed_work(
               [c1 EXCEPT !.aif.audio_state.fifo_int = TRUE, !.obs.confirmed = TRUE],
               "rate_change", 0)
        ELSE c1

\* faulty variant: the FIFO is reinitialised in the interrupt entry point
isr_fifoints_reinit_inline(c, fifo_ints) ==
    LET flag == c.aif.audio_state.fifo_flag \cup (fifo_ints \cap FifoMask)
        c1 == [c EXCEPT !.aif.audio_state.fifo_flag = flag, !.obs.ints = fifo_ints]
    IN  IF flag = FifoMask
        THEN schedule_delayed_work(
               rk628_hdmirx_audio_fifo_initd(
                 [c1 EXCEPT !.aif.audio_state.fifo_int = TRUE,
                            !.aif.audio_state.fifo_flag = {},
                            !.obs.confirmed = TRUE]),
               "rate_change", 0)
        ELSE c1

\* faulty variant: a confirmed glitch switches the FIFO notifications off
isr_fifoints_disarms(c, fifo_ints) ==
    LET flag == c.aif.audio_state.fifo_flag \cup (fifo_ints \cap FifoMask)
        c1 == [c EXCEPT !.aif.audio_state.fifo_flag = flag, !.obs.ints = fifo_ints]
    IN  IF flag = FifoMask
        THEN schedule_delayed_work(
               [c1 EXCEPT !.aif.audio_state.fifo_int = TRUE,
                          !.aif.audio_state.fifo_flag = {},
                          !.aif.fifo_ints_en = FALSE,
                          !.obs.confirmed = TRUE],
               "rate_change", 0)
        ELSE c1

rk628_csi_isr_fifoints(c, fifo_ints) ==
    LET flag == c.aif.audio_state.fifo_flag
                  \cup (fifo_ints \cap {AFIF_OVERFL_ISTS})
                  \cup (fifo_ints \cap {AFIF_UNDERFL_ISTS})
        c1 == [c EXCEPT !.aif.audio_state.fifo_flag = flag, !.obs.ints = fifo_ints]
    IN  IF flag = FifoMask
        THEN schedule_delayed_work(
               [c1 EXCEPT !.aif.audio_state.fifo_int = TRUE,
                          !.aif.audio_state.fifo_flag = {},
                          !.obs.confirmed = TRUE],
               "rate_change", 0)
        ELSE c1

(***************************************************************************)
(* Initial state: rk628_hdmirx_audioinfo_alloc() has returned a zeroed     *)
(* rk628_audioinfo with both works initialised and idle.                   *)
(***************************************************************************)
IdleWork == [pending |-> FALSE, running |-> FALSE, canceling |-> FALSE]

NoCall == [fn |-> "none", fs |-> 0, rd |-> Rd(0, 0, 0), ret |-> 0,
           raw |-> ToBytes(0, 8), exact |-> ToBytes(0, 8),
           lv0 |-> <<0, 0>>, lv1 |-> <<0, 0>>, lv2 |-> <<0, 0>>]

InitW(w) ==
    /\ version \in {RK628D_VERSION, RK628F_VERSION}
    /\ aif = [audio_state |-> [hdmirx_aud_clkrate |-> 0, fs_audio |-> 0,
                               ctsn_flag |-> {}, fifo_flag |-> {},
                               init_state |-> 0, pre_state |-> 0,
                               fifo_int |-> FALSE, audio_enable |-> FALSE],
              fifo_ints_en |-> FALSE, ctsn_ints_en |-> FALSE,
              audio_present |-> FALSE]
    /\ work = [audio |-> IdleWork, rate_change |-> IdleWork]
    /\ mutex = "free"
    /\ tick = [init_state |-> 0, pre_state |-> 0]
    /\ destroy = "idle"
    /\ watch = w
    /\ obs = Observe(NoObs("none"))
    /\ hist = NoHist
    /\ call = NoCall
    /\ hw = [rd \in Readings |-> _rk628_hdmirx_audio_fs(rd)]

Init == InitW("none")

\* the rate the clock was last committed to
CommittedRate(a) ==
    IF a.audio_state.fs_audio = 0 THEN 5644800 ELSE a.audio_state.fs_audio * 128

\* the bound of the model on the drift of the clock
InBound(a) ==
    Abs(a.audio_state.hdmirx_aud_clkrate - CommittedRate(a)) <= 10 * MaxNudge

Min(a, b) == IF a < b THEN a ELSE b

(***************************************************************************)
(* The controller's calls.  It delivers an interrupt to an entry point     *)
(* only while the matching rk628_audio_*ints_enabled() is true, and calls  *)
(* nothing once it has begun the teardown.                                 *)
(***************************************************************************)
Setup ==
    /\ destroy = "idle"
    /\ LET c == rk628_hdmirx_audio_setup(Ctx("setup"), IsV2)
       IN  /\ aif' = c.aif
           /\ work' = c.work
           /\ obs' = Observe(Effect(c))
    /\ hist' = NoHist
    /\ UNCHANGED <<hw, version, mutex, tick, destroy, watch, call>>

\* history of the CTS/N debounce: a call with only CTS_CHG on an empty
\* accumulator (stage 1), then a call with only N_CHG (stage 2); disp counts
\* the dispatches of the resync work the two calls made
CtsnHist(flag0, pdec_ints, dispatched) ==
    IF flag0 = {} /\ pdec_ints = {ACR_CTS_CHG_ICLR}
    THEN [NoHist EXCEPT !.stage = 1, !.disp = dispatched]
    ELSE IF hist.stage = 1 /\ pdec_ints = {ACR_N_CHG_ICLR}
    THEN [hist EXCEPT !.stage = 2, !.disp = @ + dispatched]
    ELSE NoHist

\* history of a complete CTS/N update: stage 1 from the call of
\* rk628_csi_isr_ctsn() that dispatched the resync work (disp counts its
\* dispatches), stage 2 from the resync pass that found both flags; d1 marks
\* a tick and d2 a resync pass run after that pass
CtsnOffHist(op, flag0) ==
    IF hist.stage = 1 /\ op = "rate_change" /\ flag0 = CtsnMask
    THEN [hist EXCEPT !.stage = 2]
    ELSE IF hist.stage = 2 /\ op = "tick"
    THEN [hist EXCEPT !.d1 = 1]
    ELSE IF hist.stage = 2 /\ op = "rate_change"
    THEN [hist EXCEPT !.d2 = 1]
    ELSE hist

IsrCtsn ==
    /\ destroy = "idle"
    /\ aif.ctsn_ints_en
    /\ \E pdec_ints \in (SUBSET CtsnMask) \ {{}} :
         LET c == rk628_csi_isr_ctsn(Ctx("isr_ctsn"), pdec_ints)
         IN  /\ aif' = c.aif
             /\ work' = c.work
             /\ obs' = Observe(Effect(c))
             /\ hist' = IF watch = "ctsn"
                        THEN CtsnHist(aif.audio_state.ctsn_flag, pdec_ints, c.obs.sched_rc)
                        ELSE IF watch = "ctsnoff" /\ c.obs.sched_rc > 0
                        THEN [NoHist EXCEPT !.stage = 1, !.disp = c.obs.sched_rc]
                        ELSE hist
    /\ UNCHANGED <<hw, version, mutex, tick, destroy, watch, call>>

\* history of the glitch debounce: seen is the set of FIFO error bits
\* notified since setup() or the last confirmed glitch.  Stage 1: a call with
\* only OVERFL on an empty accumulator; 2: then a call with only UNDERFL;
\* 3: then a resync pass; 4: then a call with a single bit.  initd counts the
\* fifo_initd() calls of the glitch branch of the resync passes since stage 2.
FifoHist(st0, fifo_ints, confirmed) ==
    LET h == IF hist.stage = 3 /\ Cardinality(fifo_ints) = 1
             THEN [hist EXCEPT !.stage = 4]
             ELSE IF hist.stage = 1 /\ fifo_ints = {AFIF_UNDERFL_ISTS}
             THEN [hist EXCEPT !.stage = 2]
             ELSE IF st0.fifo_flag = {} /\ ~st0.fifo_int /\ fifo_ints = {AFIF_OVERFL_ISTS}
             THEN [NoHist EXCEPT !.stage = 1]
             ELSE NoHist
    IN  [h EXCEPT !.seen = IF confirmed THEN {} ELSE hist.seen \cup fifo_ints]

\* history of the tick since setup(): stage 1 from the resync pass that found
\* both CTS/N flags; d1 marks a tick run before that pass
FirstHist(op, flag0) ==
    IF op = "rate_change" /\ flag0 = CtsnMask THEN [hist EXCEPT !.stage = 1]
    ELSE IF op = "tick" /\ hist.stage = 0 THEN [hist EXCEPT !.d1 = 1]
    ELSE hist

\* history of a late audio start: stage 1 from a resync pass that found both
\* CTS/N flags and an unsupported estimate, stage 2 from a tick after it
\* that read a supported estimate
StartHist(op, flag0, valid) ==
    IF hist.stage = 0 /\ op = "rate_change" /\ flag0 = CtsnMask /\ ~valid
    THEN [hist EXCEPT !.stage = 1]
    ELSE IF hist.stage = 1 /\ op = "tick" /\ valid
    THEN [hist EXCEPT !.stage = 2]
    ELSE hist

\* history of the audio being enabled: stage 1 from the handler run that
\* called rk628_hdmirx_audio_enable() first since setup(), 2 from a FIFO
\* notification after it, 3 from a resync pass after that, 4 from a tick
\* after that
ArmedHist(op, enabled) ==
    IF hist.stage = 0 /\ enabled THEN [hist EXCEPT !.stage = 1]
    ELSE IF hist.stage = 1 /\ op = "isr_fifoints" THEN [hist EXCEPT !.stage = 2]
    ELSE IF hist.stage = 2 /\ op = "rate_change" THEN [hist EXCEPT !.stage = 3]
    ELSE IF hist.stage = 3 /\ op = "tick" THEN [hist EXCEPT !.stage = 4]
    ELSE hist

IsrFifoints ==
    /\ destroy = "idle"
    /\ aif.fifo_ints_en
    /\ \E fifo_ints \in (SUBSET FifoMask) \ {{}} :
         LET c0 == rk628_csi_isr_fifoints(Ctx("isr_fifoints"), fifo_ints)
             c == [c0 EXCEPT !.obs.seen = hist.seen \cup fifo_ints]
         IN  /\ aif' = c.aif
             /\ work' = c.work
             /\ obs' = Observe(Effect(c))
             /\ hist' = IF watch = "glitch"
                        THEN FifoHist(aif.audio_state, fifo_ints, c.obs.confirmed)
                        ELSE IF watch = "armed"
                        THEN ArmedHist("isr_fifoints", FALSE)
                        ELSE hist
    /\ UNCHANGED <<hw, version, mutex, tick, destroy, watch, call>>

(***************************************************************************)
(* The periodic tick.  Its work function takes no lock.  TickStart is the  *)
(* timer expiring and a worker entering the function (the v1 tick reads    *)
(* init_state and pre_state first); TickBody is the rest of the function,  *)
(* to its schedule_delayed_work(), where its locals die.                   *)
(***************************************************************************)
TickStart ==
    /\ destroy # "done"
    /\ work.audio.pending
    /\ ~work.audio.running
    /\ work' = [work EXCEPT !.audio.pending = FALSE, !.audio.running = TRUE]
    /\ tick' = IF IsV2 THEN tick
               ELSE [init_state |-> aif.audio_state.init_state,
                     pre_state |-> aif.audio_state.pre_state]
    /\ UNCHANGED <<hw, version, aif, mutex, destroy, watch, obs, hist, call>>

\* history of the drift scenario: a steady-state tick (no FIFO error bit, a
\* valid fs equal to the tracked one) that starts from a fresh baseline and
\* reads the reference level (stage 1), then the next tick, steady too,
\* reading 20 above it (stage 2); d1 and d2 are the changes of the clock rate
DriftHist(steady, fresh, level, d) ==
    IF steady /\ hist.stage = 1 /\ level = InitLevel + 20
    THEN [hist EXCEPT !.stage = 2, !.d2 = d]
    ELSE IF steady /\ fresh /\ level = InitLevel
    THEN [NoHist EXCEPT !.stage = 1, !.d1 = d]
    ELSE NoHist

TickBodyV2 ==
    /\ IsV2
    /\ work.audio.running
    /\ \E rd \in DOMAIN hw, fifo_ints \in FifoReads :
       \E fifo_status \in (IF fifo_ints = {} THEN Levels ELSE NotRead) :
         LET c == rk628_csi_delayed_work_audio_v2(Ctx("tick"), rd, fifo_ints, fifo_status)
             st == aif.audio_state
         IN  /\ InBound(c.aif)
             /\ aif' = c.aif
             /\ work' = [c.work EXCEPT !.audio.running = FALSE]
             /\ obs' = Observe(Effect(c))
             /\ hist' = IF watch = "drift"
                        THEN DriftHist(
                               fifo_ints = {} /\ HwFs(rd) # 0 /\ HwFs(rd) = st.fs_audio,
                               st.init_state = InitLevel /\ st.pre_state \in {0, InitLevel},
                               fifo_status,
                               c.aif.audio_state.hdmirx_aud_clkrate - st.hdmirx_aud_clkrate)
                        ELSE hist
    /\ UNCHANGED <<hw, version, mutex, tick, destroy, watch, call>>

TickBodyV1 ==
    /\ ~IsV2
    /\ work.audio.running
    /\ \E rd \in DOMAIN hw :
       \E fifo_ints \in (IF is_validfs(HwFs(rd)) /\ ~aif.audio_state.audio_enable
                         THEN FifoReads ELSE {{}}),
          cur_state \in (IF is_validfs(HwFs(rd)) /\ aif.audio_state.audio_enable
                         THEN Levels ELSE NotRead) :
         LET c == rk628_csi_delayed_work_audio(Ctx("tick"), tick, rd, fifo_ints, cur_state)
             st == aif.audio_state
         IN  /\ InBound(c.aif)
             /\ aif' = c.aif
             /\ work' = [c.work EXCEPT !.audio.running = FALSE]
             /\ obs' = Observe(Effect(c))
             /\ tick' = [init_state |-> 0, pre_state |-> 0]
             /\ hist' = IF watch = "drift"
                        THEN DriftHist(
                               st.audio_enable /\ HwFs(rd) # 0 /\ HwFs(rd) = st.fs_audio,
                               tick.init_state = InitLevel /\ tick.pre_state \in {0, InitLevel},
                               cur_state,
                               c.aif.audio_state.hdmirx_aud_clkrate - st.hdmirx_aud_clkrate)
                        ELSE IF watch = "ctsnoff"
                        THEN CtsnOffHist("tick", st.ctsn_flag)
                        ELSE IF watch = "armed"
                        THEN ArmedHist("tick", c.obs.enable > 0)
                        ELSE IF watch = "first"
                        THEN FirstHist("tick", st.ctsn_flag)
                        ELSE IF watch = "start"
                        THEN StartHist("tick", st.ctsn_flag, is_validfs(HwFs(rd)))
                        ELSE hist
    /\ UNCHANGED <<hw, version, mutex, destroy, watch, call>>

(***************************************************************************)
(* The resync work: RcLock is a worker entering the function and taking    *)
(* the mutex, RcBody the function from there to mutex_unlock().            *)
(***************************************************************************)
RcLock ==
    /\ destroy # "done"
    /\ work.rate_change.pending
    /\ ~work.rate_change.running
    /\ mutex = "free"
    /\ mutex' = "rate_change"
    /\ work' = [work EXCEPT !.rate_change.pending = FALSE, !.rate_change.running = TRUE]
    /\ UNCHANGED <<hw, version, aif, tick, destroy, watch, obs, hist, call>>

RcBody ==
    /\ work.rate_change.running
    /\ mutex = "rate_change"
    /\ \E rd \in DOMAIN hw :
       \E fifo_ints \in (IF is_validfs(HwFs(rd)) /\ aif.audio_state.ctsn_flag = CtsnMask
                         THEN FifoReads ELSE {{}}),
          fifo_fillsts \in (IF aif.audio_state.fifo_int THEN {0, InitLevel} ELSE NotRead) :
         LET c == rk628_csi_delayed_work_audio_rate_change(
                    Ctx("rate_change"), rd, fifo_ints, fifo_fillsts)
         IN  /\ aif' = c.aif
             /\ work' = [c.work EXCEPT !.rate_change.running = FALSE]
             /\ obs' = Observe(Effect(c))
             /\ hist' = CASE watch = "glitch" /\ hist.stage = 2 ->
                               [hist EXCEPT !.stage = 3, !.initd = c.obs.glitch_initd]
                          [] watch = "glitch" /\ hist.stage \in {3, 4} ->
                               [hist EXCEPT !.initd = Min(2, @ + c.obs.glitch_initd)]
                          [] watch = "drift" -> NoHist
                          [] watch = "ctsnoff" ->
                               CtsnOffHist("rate_change", aif.audio_state.ctsn_flag)
                          [] watch = "armed" ->
                               ArmedHist("rate_change", c.obs.enable > 0)
                          [] watch = "first" ->
                               FirstHist("rate_change", aif.audio_state.ctsn_flag)
                          [] watch = "start" ->
                               StartHist("rate_change", aif.audio_state.ctsn_flag,
                                         is_validfs(HwFs(rd)))
                          [] OTHER -> hist
    /\ mutex' = "free"
    /\ UNCHANGED <<hw, version, tick, destroy, watch, call>>

(***************************************************************************)
(* Teardown, rk628_hdmirx_audio_destroy(): cancel_delayed_work_sync() on   *)
(* the tick, then (before RK628F) on the resync work, then the pointers    *)
(* are cleared.  A synchronous cancel dequeues the work and returns once   *)
(* the work function is not running.                                       *)
(***************************************************************************)
DestroyBegin ==
    /\ destroy = "idle"
    /\ destroy' = "cancel_audio"
    /\ work' = [work EXCEPT !.audio.pending = FALSE, !.audio.canceling = TRUE]
    /\ UNCHANGED <<hw, version, aif, mutex, tick, watch, obs, hist, call>>

DestroyAudioCancelled ==
    /\ destroy = "cancel_audio"
    /\ ~work.audio.running
    /\ IF IsV2
       THEN /\ destroy' = "done"
            /\ work' = [work EXCEPT !.audio.canceling = FALSE]
       ELSE /\ destroy' = "cancel_rate_change"
            /\ work' = [work EXCEPT !.audio.canceling = FALSE,
                                    !.rate_change.pending = FALSE,
                                    !.rate_change.canceling = TRUE]
    /\ UNCHANGED <<hw, version, aif, mutex, tick, watch, obs, hist, call>>

DestroyRcCancelled ==
    /\ destroy = "cancel_rate_change"
    /\ ~work.rate_change.running
    /\ destroy' = "done"
    /\ work' = [work EXCEPT !.rate_change.canceling = FALSE]
    /\ UNCHANGED <<hw, version, aif, mutex, tick, watch, obs, hist, call>>

\* the rate tracker between setup and teardown
Next ==
    \/ Setup
    \/ IsrCtsn
    \/ IsrFifoints
    \/ TickStart
    \/ TickBodyV2
    \/ TickBodyV1
    \/ RcLock
    \/ RcBody

Spec == Init /\ [][Next]_vars

\* the rate tracker and its teardown
NextTeardown ==
    \/ Next
    \/ DestroyBegin
    \/ DestroyAudioCancelled
    \/ DestroyRcCancelled

SpecTeardown == Init /\ [][NextTeardown]_vars

(***************************************************************************)
(* Teardown against the mutex.  The resync work takes *confctl_mutex,      *)
(* which it shares with the driver that owns the receiver: RcEnter is a    *)
(* worker entering the work function, RcAcquire its mutex_lock()           *)
(* returning, CtrlLock and CtrlUnlock another thread of the owning driver  *)
(* taking and releasing the mutex.  Nothing but the mutex_lock() of the    *)
(* resync pass reads the mutex, so the other thread is followed only while *)
(* a pass has entered: CtrlLock is that thread getting the mutex before    *)
(* the pass does.  The caller of rk628_hdmirx_audio_destroy() is not that  *)
(* thread: it does not hold the mutex.                                     *)
(***************************************************************************)
RcEnter ==
    /\ destroy # "done"
    /\ work.rate_change.pending
    /\ ~work.rate_change.running
    /\ work' = [work EXCEPT !.rate_change.pending = FALSE, !.rate_change.running = TRUE]
    /\ UNCHANGED <<hw, version, aif, mutex, tick, destroy, watch, obs, hist, call>>

RcAcquire ==
    /\ work.rate_change.running
    /\ mutex = "free"
    /\ mutex' = "rate_change"
    /\ UNCHANGED <<hw, version, aif, work, tick, destroy, watch, obs, hist, call>>

CtrlLock ==
    /\ work.rate_change.running
    /\ mutex = "free"
    /\ mutex' = "controller"
    /\ UNCHANGED <<hw, version, aif, work, tick, destroy, watch, obs, hist, call>>

CtrlUnlock ==
    /\ mutex = "controller"
    /\ mutex' = "free"
    /\ UNCHANGED <<hw, version, aif, work, tick, destroy, watch, obs, hist, call>>

NextTerm ==
    \/ Setup
    \/ IsrCtsn
    \/ IsrFifoints
    \/ TickStart
    \/ TickBodyV2
    \/ TickBodyV1
    \/ RcEnter
    \/ RcAcquire
    \/ RcBody
    \/ CtrlLock
    \/ CtrlUnlock
    \/ DestroyBegin
    \/ DestroyAudioCancelled
    \/ DestroyRcCancelled

\* what RcBody, and no other step, does to the resync work item and the mutex
RcEnd ==
    /\ work.rate_change.running
    /\ mutex = "rate_change"
    /\ mutex' = "free"
    /\ \E pending \in BOOLEAN :
         work' = [work EXCEPT !.rate_change.running = FALSE, !.audio.pending = pending]

(***************************************************************************)
(* The v1 tick and the resync pass run one after the other, in the two     *)
(* orders, from the current state and on the same register reads: rd for   *)
(* the estimator, fifo_ints for HDMI_RX_AUD_FIFO_ISTS and level for         *)
(* HDMI_RX_AUD_FIFO_FILLSTS1.  The tick reads its locals when it starts.    *)
(***************************************************************************)
Locals(c) == [init_state |-> c.aif.audio_state.init_state,
              pre_state |-> c.aif.audio_state.pre_state]

TickThenResync(rd, fifo_ints, level) ==
    LET c0 == Ctx("order")
        c1 == rk628_csi_delayed_work_audio(c0, Locals(c0), rd, fifo_ints, level)
    IN  rk628_csi_delayed_work_audio_rate_change(c1, rd, fifo_ints, level)

ResyncThenTick(rd, fifo_ints, level) ==
    LET c0 == Ctx("order")
        c1 == rk628_csi_delayed_work_audio_rate_change(c0, rd, fifo_ints, level)
    IN  rk628_csi_delayed_work_audio(c1, Locals(c1), rd, fifo_ints, level)

\* both works are queued and neither runs
BothPending ==
    /\ ~IsV2
    /\ work.audio.pending /\ ~work.audio.running
    /\ work.rate_change.pending /\ ~work.rate_change.running
    /\ mutex = "free"

(***************************************************************************)
(* The estimator as a pure function: calls of the snapping step and of     *)
(* the estimator on inputs drawn from the sets below.                      *)
(***************************************************************************)
Rates == {supported_fs[i] : i \in 1..(Len(supported_fs) - 1)}

\* raw rates: around every table entry and its window edges, the overlap of
\* the windows of 44100 and 48000, and rates in no window
RawFsInputs ==
    {r + d : r \in Rates, d \in {-2001, -2000, -1000, -1, 0, 1, 1000, 2000, 2001}}
    \cup {0, 46000, 46049, 46050, 46051, 46075, 46100, 60000, 400000}

U32Max == <<255, 255, 255, 255>>

EstReadings ==
    [clkrate : {U32(0), U32(3000), U32(65535), U32(68536)},
     cts     : {U32(0), U32(1), U32(148500), U32Max},
     n       : {U32(0), U32(5644), U32(6144), U32Max}]

CallFindClosest ==
    /\ call.fn = "none"
    /\ \E fs \in RawFsInputs :
         call' = [NoCall EXCEPT !.fn = "find_closest_fs", !.fs = fs,
                                !.ret = rk628_hdmirx_audio_find_closest_fs(fs)]
    /\ UNCHANGED <<hw, version, aif, work, mutex, tick, destroy, watch, obs, hist>>

CallAudioFs ==
    /\ call.fn = "none"
    /\ \E rd \in EstReadings :
         call' = [NoCall EXCEPT !.fn = "audio_fs", !.rd = rd,
                                !.ret = _rk628_hdmirx_audio_fs(rd)]
    /\ UNCHANGED <<hw, version, aif, work, mutex, tick, destroy, watch, obs, hist>>

\* a u64 shifted right by 7 bits
Shr7(a) == [i \in 1..8 |-> (a[i] \div 128) + 2 * ((IF i < 8 THEN a[i + 1] ELSE 0) % 128)]

\* floor(floor(clkCount * 49500 * N / CTS) / 128) for a 16-bit clkCount, in
\* 64 bits throughout: the product is below 2^64, so nothing is lost
ExactRawFs(rd) ==
    LET clkCount == [i \in 1..8 |-> IF i <= 2 THEN rd.clkrate[i] ELSE 0]
    IN  Shr7(div_u64(MulW(MulW(clkCount, ToBytes(49500, 8), 8), Resize(rd.n, 8), 8),
                     rd.cts))

CallRawFs ==
    /\ call.fn = "none"
    /\ \E rd \in {r \in EstReadings : r.cts # U32(0)} :
         call' = [NoCall EXCEPT !.fn = "audio_fs_raw", !.rd = rd,
                                !.raw = ToBytes(audio_fs_raw(rd), 8),
                                !.exact = ExactRawFs(rd)]
    /\ UNCHANGED <<hw, version, aif, work, mutex, tick, destroy, watch, obs, hist>>

\* the level pair (init_state, pre_state) of a context
LevelPair(c) == <<c.aif.audio_state.init_state, c.aif.audio_state.pre_state>>

\* rk628_hdmirx_audio_fifo_init() called twice in succession on an
\* audio_state whose levels are drawn from Levels
CallFifoInitTwice ==
    /\ call.fn = "none"
    /\ \E init_state \in {0, INIT_FIFO_STATE, InitLevel}, pre_state \in Levels :
         LET c0 == [Ctx("fifo_init") EXCEPT !.aif.audio_state.init_state = init_state,
                                            !.aif.audio_state.pre_state = pre_state]
             c1 == rk628_hdmirx_audio_fifo_init(c0)
             c2 == rk628_hdmirx_audio_fifo_init(c1)
         IN  call' = [NoCall EXCEPT !.fn = "fifo_init", !.lv0 = LevelPair(c0),
                                    !.lv1 = LevelPair(c1), !.lv2 = LevelPair(c2)]
    /\ UNCHANGED <<hw, version, aif, work, mutex, tick, destroy, watch, obs, hist>>

NextFs ==
    \/ CallFindClosest
    \/ CallAudioFs
    \/ CallRawFs
    \/ CallFifoInitTwice

SpecFs == Init /\ [][NextFs]_vars

\* the rate tracker with each of the histories kept
SpecCtsn == InitW("ctsn") /\ [][Next]_vars

SpecGlitch == InitW("glitch") /\ [][Next]_vars

SpecNudge == InitW("nudge") /\ [][Next]_vars

SpecDrift == InitW("drift") /\ [][Next]_vars

SpecTick == InitW("tick") /\ [][Next]_vars

SpecEntry == InitW("entry") /\ [][Next]_vars

SpecEnable == InitW("enable") /\ [][Next]_vars

SpecSteady == InitW("steady") /\ [][Next]_vars

SpecPresent == InitW("present") /\ [][Next]_vars

SpecResync == InitW("resync") /\ [][Next]_vars

SpecReinit == InitW("reinit") /\ [][Next]_vars

SpecCtsnOff == InitW("ctsnoff") /\ [][Next]_vars

SpecArmed == InitW("armed") /\ [][Next]_vars

SpecClock == InitW("clock") /\ [][Next]_vars

SpecRate == InitW("rate") /\ [][Next]_vars

SpecFirst == InitW("first") /\ [][Next]_vars

SpecStart == InitW("start") /\ [][Next]_vars

\* the workqueue runs a queued tick once its delay has expired, and a tick
\* that has started runs to its end (TickEnd is what TickBodyV2 and
\* TickBodyV1, and no other step of Next, do to the tick's work item)
TickEnd ==
    /\ work.audio.running
    /\ \E pending \in BOOLEAN :
         work' = [work EXCEPT !.audio.running = FALSE, !.audio.pending = pending]

SpecSched ==
    /\ InitW("sched")
    /\ [][Next]_vars
    /\ WF_vars(TickStart)
    /\ WF_work(TickEnd)

\* a work function that has started runs to its end, a thread that holds
\* the mutex releases it, mutex_lock() is not starved (the kernel mutex hands
\* over to a waiter), and cancel_delayed_work_sync() returns once the work
\* is not running
SpecTerm ==
    /\ Init
    /\ [][NextTerm]_vars
    /\ WF_work(TickEnd)
    /\ WF_<<work, mutex>>(RcEnd)
    /\ SF_vars(RcAcquire)
    /\ WF_vars(CtrlUnlock)
    /\ WF_vars(DestroyAudioCancelled)
    /\ WF_vars(DestroyRcCancelled)

(***************************************************************************)
(* Properties.                                                             *)
(***************************************************************************)

\* C1: in every reachable state the tracked sample rate fs_audio is 0 or one
\* of the eight supported rates.
C1_FsAudioSupported == aif.audio_state.fs_audio \in Rates \cup {0}

\* a rate has been committed
C1_Witness == aif.audio_state.fs_audio = 48000 /\ aif.audio_state.audio_enable

\* C2: the tick and the resync pass never execute their bodies at the same
\* time.  (Fails: only the resync work takes the mutex, the tick takes none.)
C2_TickAndResyncExclusive == ~(work.audio.running /\ mutex = "rate_change")

\* C3: once rk628_hdmirx_audio_destroy() has returned, neither work is
\* pending or running.  (Fails: the resync pass queues the tick after the
\* tick has been cancelled.)
C3_NothingLeftAfterTeardown ==
    destroy = "done" =>
        \A w \in {"audio", "rate_change"} : ~work[w].pending /\ ~work[w].running

\* C4: a raw rate within 2000 Hz of a table entry R and strictly closer to R
\* than to every other entry is snapped to R.  (Fails between 46050 and 46100,
\* where the scan returns 44100, the first entry in whose window the rate is.)
C4_SnapsToClosest ==
    call.fn = "find_closest_fs" =>
        \A r \in Rates :
            (/\ Abs(call.fs - r) <= 2000
             /\ \A r2 \in Rates \ {r} : Abs(call.fs - r) < Abs(call.fs - r2))
            => call.ret = r

\* C5: the estimator returns 0 whenever the CTS register reads 0, whatever
\* the clock counter and N read.
C5_ZeroCtsGivesZero ==
    (call.fn = "audio_fs" /\ call.rd.cts = U32(0)) => call.ret = 0

C5_Witness ==
    /\ call.fn = "audio_fs"
    /\ call.rd = Rd(3000, 0, 6144)
    /\ call.ret = 0

\* C6: from an empty ctsn_flag, a notification with only CTS_CHG dispatches
\* nothing, and a following one with only N_CHG dispatches the resync work:
\* one dispatch in all, made by the second call.
C6_CtsnDebounce ==
    /\ hist.stage = 1 => hist.disp = 0 /\ aif.ctsn_ints_en
    /\ hist.stage = 2 => hist.disp = 1

C6_Witness == hist.stage = 2 /\ ~aif.ctsn_ints_en

C8_GlitchNeedsBothSinceReset ==
    (obs.op = "isr_fifoints" /\ obs.confirmed) => obs.seen = FifoMask

\* C9: a tick that reads a fill level within 16 of the reference level,
\* bounds included, applies no nudge.
C9_DeadBand ==
    (obs.op = "tick" /\ obs.read_fill /\ Abs(obs.fill - obs.init_state) <= 16)
        => obs.inc_rate = 0

\* a tick read a rising level exactly 16 above the reference
C9_Witness ==
    /\ obs.op = "tick"
    /\ obs.read_fill
    /\ obs.fill = obs.init_state + 16
    /\ obs.fill > obs.pre_state
    /\ obs.init_state = InitLevel

\* C10: from a fresh baseline, a steady tick reading the reference level
\* leaves the clock rate unchanged, and the next tick, reading 20 above the
\* reference level, raises it by exactly 10 Hz.
C10_DriftScenario ==
    /\ hist.stage >= 1 => hist.d1 = 0
    /\ hist.stage = 2 => hist.d2 = 10

C10_Witness == hist.stage = 2 /\ IsV2


\* C11: rk628_hdmirx_audio_fifo_init() called twice in succession leaves the
\* same (init_state, pre_state) as one call does, and that pair is (256, 256).
C11_FifoInitIdempotent ==
    call.fn = "fifo_init" =>
        /\ call.lv1 = <<4 * INIT_FIFO_STATE, 4 * INIT_FIFO_STATE>>
        /\ call.lv2 = call.lv1

\* the two calls were made on levels that both differ from the reference
C11_Witness ==
    /\ call.fn = "fifo_init"
    /\ call.lv0 = <<0, InitLevel + 16>>
    /\ call.lv2 = <<256, 256>>

\* C12: with the clock counter reading 3000, CTS 148500 and N 5644 the
\* estimator returns 44100.
C12_Scenario44100 ==
    (call.fn = "audio_fs" /\ call.rd = Rd(3000, 148500, 5644)) => call.ret = 44100

C12_Witness ==
    /\ call.fn = "audio_fs"
    /\ call.rd = Rd(3000, 148500, 5644)
    /\ call.ret = 44100

\* C17: for a CTS other than 0 the rate handed to the snapping step is
\* floor(floor(clkCount * 49500 * N / CTS) / 128), nothing overflowing or
\* truncated on the way.  (Fails: the 64-bit quotient is stored in a u32
\* before it is divided by 128.)
C17_RawFsExact == call.fn = "audio_fs_raw" => call.raw = call.exact


\* C13: audio is enabled only on a valid rate: whenever audio_enable is set
\* fs_audio is a table rate, and a handler that called
\* rk628_hdmirx_audio_enable() had estimated a valid fs and committed it.
C13_EnableGatedOnValidFs ==
    /\ aif.audio_state.audio_enable => aif.audio_state.fs_audio \in Rates
    /\ obs.enable > 0 =>
          /\ obs.fs \in Rates
          /\ obs.set_fs > 0
          /\ aif.audio_state.fs_audio = obs.fs

\* the resync pass has just started the audio
C13_Witness ==
    /\ obs.op = "rate_change"
    /\ obs.enable = 1
    /\ aif.audio_state.audio_enable
    /\ aif.audio_state.fs_audio = 44100

\* C14 as stated: right after rk628_hdmirx_audio_setup() fs_audio is 0,
\* audio_enable is false, ctsn_flag is empty, fifo_int is false and both
\* init_state and pre_state are 256.  (Fails: setup() sets pre_state to 0.)
C14_AfterSetupBothLevels256 ==
    obs.op = "setup" =>
        /\ aif.audio_state.fs_audio = 0
        /\ ~aif.audio_state.audio_enable
        /\ aif.audio_state.ctsn_flag = {}
        /\ ~aif.audio_state.fifo_int
        /\ aif.audio_state.init_state = 256
        /\ aif.audio_state.pre_state = 256

\* C14 amended: right after rk628_hdmirx_audio_setup() fs_audio is 0,
\* audio_enable is false, ctsn_flag is empty, fifo_int is false, init_state
\* is 256 and pre_state is 0.
C14_AfterSetup ==
    obs.op = "setup" =>
        /\ aif.audio_state.fs_audio = 0
        /\ ~aif.audio_state.audio_enable
        /\ aif.audio_state.ctsn_flag = {}
        /\ ~aif.audio_state.fifo_int
        /\ aif.audio_state.init_state = 4 * INIT_FIFO_STATE
        /\ aif.audio_state.pre_state = 0

\* setup() was called while audio was running
C14_Witness ==
    /\ obs.op = "setup"
    /\ {"fs_audio", "audio_enable", "pre_state"} \subseteq obs.changed

\* C15: the interrupt entry points leave fs_audio, the clock rate,
\* init_state, pre_state and audio_enable as they are, and call neither the
\* clock rate setters nor a FIFO reinitialisation.
C15_IsrFrame ==
    obs.op \in {"isr_ctsn", "isr_fifoints"} =>
        /\ obs.changed \cap {"fs_audio", "hdmirx_aud_clkrate", "init_state",
                             "pre_state", "audio_enable"} = {}
        /\ obs.set_fs = 0
        /\ obs.inc_rate = 0
        /\ obs.fifo_init = 0
        /\ obs.fifo_initd = 0

\* a notification confirmed a glitch and queued the resync work
C15_Witness ==
    /\ obs.op = "isr_fifoints"
    /\ aif.audio_state.fifo_int
    /\ work.rate_change.pending

\* C18: a tick whose estimated fs is invalid leaves the clock rate as it is,
\* whatever the fill level, and the polled tick (no FIFO error bit read)
\* schedules the next one after 1000 ms.  (Fails: the polled tick only
\* widens the delay and goes on to the nudge.)
C18_InvalidFsSkipsAdjustment ==
    (obs.op = "tick" /\ ~is_validfs(obs.fs)) =>
        /\ "hdmirx_aud_clkrate" \notin obs.changed
        /\ obs.inc_rate = 0
        /\ obs.set_fs = 0
        /\ (IsV2 /\ obs.ints = {}) => obs.delay = 1000

\* C19: a polled tick that reads a FIFO error bit commits fs and 128 * fs iff
\* fs is valid, calls rk628_hdmirx_audio_fifo_init() once, ends with
\* init_state 256 and pre_state 0, nudges nothing, leaves audio_present as it
\* is and schedules the next tick after 500 ms.
C19_TickOnFifoError ==
    (obs.op = "tick" /\ IsV2 /\ obs.ints # {}) =>
        /\ is_validfs(obs.fs) =>
              /\ obs.set_fs = 1
              /\ aif.audio_state.fs_audio = obs.fs
              /\ aif.audio_state.hdmirx_aud_clkrate = 128 * obs.fs
        /\ ~is_validfs(obs.fs) =>
              /\ obs.set_fs = 0
              /\ obs.changed \cap {"fs_audio", "hdmirx_aud_clkrate"} = {}
        /\ obs.fifo_init = 1
        /\ aif.audio_state.init_state = 256
        /\ aif.audio_state.pre_state = 0
        /\ obs.inc_rate = 0
        /\ "audio_present" \notin obs.changed
        /\ obs.delay = 500

\* a tick read an error bit while the rate read differs from the tracked one
C19_Witness ==
    /\ obs.op = "tick"
    /\ IsV2
    /\ obs.ints = {AFIF_OVERFL_ISTS}
    /\ obs.fs = 48000
    /\ obs.fs0 = 44100
    /\ aif.audio_state.hdmirx_aud_clkrate = 6144000

\* C20: a polled tick that reads no FIFO error bit and a valid fs more than
\* 1000 Hz from fs_audio ends with fs_audio = fs, the clock rate at 128 * fs,
\* init_state 256 and pre_state 0, and nudges nothing.
C20_TickOnFormatChange ==
    (/\ obs.op = "tick"
     /\ IsV2
     /\ obs.ints = {}
     /\ is_validfs(obs.fs)
     /\ Abs(obs.fs - obs.fs0) > 1000) =>
        /\ aif.audio_state.fs_audio = obs.fs
        /\ aif.audio_state.hdmirx_aud_clkrate = 128 * obs.fs
        /\ aif.audio_state.init_state = 256
        /\ aif.audio_state.pre_state = 0
        /\ obs.inc_rate = 0

\* the rate changed from 48000 to 44100 between two ticks
C20_Witness ==
    /\ obs.op = "tick"
    /\ IsV2
    /\ obs.ints = {}
    /\ obs.fs = 44100
    /\ obs.fs0 = 48000
    /\ aif.audio_state.fs_audio = 44100
    /\ aif.audio_state.pre_state = 0


\* C16 as stated: when the v1 tick and the resync pass are both pending,
\* running them in either order on the same register reads gives the same
\* fs_audio, clock rate, init_state, pre_state and audio_enable.  (Fails: the
\* tick that runs second finds the audio enabled and tracks the fill level.)
C16_OrderIndependent ==
    BothPending =>
        \A rd \in DOMAIN hw, fifo_ints \in FifoReads, level \in Levels :
            LET a == Tracked(TickThenResync(rd, fifo_ints, level).aif)
                b == Tracked(ResyncThenTick(rd, fifo_ints, level).aif)
            IN  \A f \in {"fs_audio", "hdmirx_aud_clkrate", "init_state",
                          "pre_state", "audio_enable"} : a[f] = b[f]

\* C16 amended: when the v1 tick and the resync pass are both pending,
\* running them in either order on the same register reads gives the same
\* fs_audio, audio_enable and init_state (the clock rate and pre_state may
\* differ).
C16_OrderKeepsRateEnableAndReference ==
    BothPending =>
        \A rd \in DOMAIN hw, fifo_ints \in FifoReads, level \in Levels :
            LET a == Tracked(TickThenResync(rd, fifo_ints, level).aif)
                b == Tracked(ResyncThenTick(rd, fifo_ints, level).aif)
            IN  \A f \in {"fs_audio", "audio_enable", "init_state"} : a[f] = b[f]

\* both works are pending with the CTS/N flags complete, the audio not yet
\* enabled, and the two orders commit the same new rate
C16_Witness ==
    /\ BothPending
    /\ aif.audio_state.ctsn_flag = CtsnMask
    /\ ~aif.audio_state.audio_enable
    /\ \E rd \in DOMAIN hw :
         LET a == Tracked(TickThenResync(rd, {}, InitLevel + 20).aif)
             b == Tracked(ResyncThenTick(rd, {}, InitLevel + 20).aif)
         IN  /\ a.fs_audio = 48000 /\ b.fs_audio = 48000
             /\ a.audio_enable /\ b.audio_enable
             /\ a.pre_state # b.pre_state

\* C21: a tick in the steady state (no FIFO error, supported estimate within
\* 1000 Hz of the tracked rate) that reads a fill level L other than 0 raises
\* the audio clock by exactly 10 Hz when L is more than 16 above the
\* reference level and above the previous level, lowers it by exactly 10 Hz
\* when L is more than 16 below the reference level and below the previous
\* level, and leaves it alone otherwise; the tracked rate stays as it was and
\* the previous level is L afterwards.
C21_SteadyTickNudge ==
    (obs.op = "tick" /\ obs.steady /\ obs.fill # 0) =>
        LET L    == obs.fill
            up   == L - obs.init_state > 16 /\ L - obs.pre_state > 0
            down == L - obs.init_state < -16 /\ L - obs.pre_state < 0
        IN  /\ obs.dclk = IF up THEN 10 ELSE IF down THEN -10 ELSE 0
            /\ aif.audio_state.fs_audio = obs.fs0
            /\ aif.audio_state.pre_state = L

\* a steady tick read a level under the dead band that was not falling
C21_Witness ==
    /\ obs.op = "tick"
    /\ obs.steady
    /\ obs.fill = InitLevel - 17
    /\ obs.init_state = InitLevel
    /\ obs.pre_state < obs.fill
    /\ obs.dclk = 0

\* C22 as stated: after every tick that read the FIFO fill level L,
\* rk628_hdmirx_audio_present() is true exactly when L is not 0, and no
\* nudge was applied when L is 0.
C22_PresentAfterFillRead ==
    (obs.op = "tick" /\ obs.read_fill) =>
        /\ rk628_hdmirx_audio_present(aif) = (obs.fill # 0)
        /\ obs.fill = 0 => obs.inc_rate = 0

\* C22: after every tick that read the FIFO fill level L and did not restart
\* on a format change (the polled tick reads L before it tests for one),
\* rk628_hdmirx_audio_present() is true exactly when L is not 0, and no
\* nudge was applied when L is 0; a polled tick that restarts applies none.
C22_PresentAfterFillUse ==
    (obs.op = "tick" /\ obs.read_fill) =>
        IF IsV2 /\ obs.set_fs > 0
        THEN obs.inc_rate = 0
        ELSE /\ rk628_hdmirx_audio_present(aif) = (obs.fill # 0)
             /\ obs.fill = 0 => obs.inc_rate = 0

\* a tick read an empty FIFO while audio was reported present before
C22_Witness ==
    /\ obs.op = "tick"
    /\ obs.read_fill
    /\ obs.fill = 0
    /\ obs.set_fs = 0
    /\ ~rk628_hdmirx_audio_present(aif)
    /\ aif.audio_state.audio_enable

C24_CtsnOffUntilSetup ==
    /\ hist.stage >= 1 => ~aif.ctsn_ints_en
    /\ hist.stage = 1 =>
          /\ hist.disp = 1
          /\ aif.audio_state.ctsn_flag = CtsnMask
          /\ work.rate_change.pending \/ work.rate_change.running
    /\ hist.stage = 2 => aif.audio_state.ctsn_flag = {}

\* the update was consumed, then a tick and another resync pass ran
C24_Witness ==
    /\ hist.stage = 2
    /\ hist.d1 = 1
    /\ hist.d2 = 1
    /\ ~aif.ctsn_ints_en
    /\ aif.audio_state.ctsn_flag = {}

\* C25: called in any reachable state, rk628_hdmirx_audio_fifo_init() and
\* rk628_hdmirx_audio_fifo_initd() each leave init_state and pre_state both
\* at 256, and init_state is 256 in every state reached once setup() has run
\* (no handler can run before the first setup()).
C25_LevelsResetTogether ==
    /\ LevelPair(rk628_hdmirx_audio_fifo_init(Ctx("fifo_init")))
          = <<InitLevel, InitLevel>>
    /\ LevelPair(rk628_hdmirx_audio_fifo_initd(Ctx("fifo_initd")))
          = <<InitLevel, InitLevel>>
    /\ obs.op # "none" => aif.audio_state.init_state = InitLevel

\* a resync pass has just reinitialised the FIFO with fifo_initd()
C25_Witness ==
    /\ obs.op = "rate_change"
    /\ obs.fifo_initd = 1
    /\ obs.fifo_init = 0
    /\ LevelPair(Ctx("none")) = <<InitLevel, InitLevel>>

\* C26: one tick or one resync pass reinitialises the FIFO (fifo_init() or
\* fifo_initd()) at most once.  (Fails: a resync pass that finds both CTS/N
\* flags and a confirmed glitch reinitialises in audio_enable(), when an
\* error bit reads set, and again in its glitch branch.)
C26_AtMostOneReinit ==
    obs.op \in {"tick", "rate_change"} => obs.fifo_init + obs.fifo_initd <= 1

\* C27: every run of the tick, whatever branch it takes, calls
\* schedule_delayed_work() for the tick exactly once and leaves the tick
\* queued; with a workqueue that runs what is queued, the tick once queued
\* starts and ends again and again.
C27_TickAlwaysRequeued ==
    /\ [][(work.audio.running /\ ~work'.audio.running)
            => (obs'.op = "tick" /\ obs'.sched_audio = 1 /\ work'.audio.pending)]_vars
    /\ [](work.audio.pending
            => ([]<>work.audio.running /\ []<>~work.audio.running))

\* a polled tick that read an unsupported estimate has requeued itself
C27_Witness ==
    /\ IsV2
    /\ obs.op = "tick"
    /\ obs.sched_audio = 1
    /\ obs.delay = 1000
    /\ work.audio.pending
    /\ ~work.audio.running

\* C28: the polled tick requeues itself after 1000 ms exactly when the
\* estimate is not a supported rate and neither FIFO error bit is set, and
\* after 500 ms on every other branch; the interrupt-driven tick always
\* requeues itself after 1000 ms.
C28_TickDelay ==
    obs.op = "tick" =>
        obs.delay = IF IsV2
                    THEN IF ~is_validfs(obs.fs) /\ obs.ints = {} THEN 1000 ELSE 500
                    ELSE 1000

\* a polled tick read an unsupported estimate together with a FIFO error bit
C28_Witness ==
    /\ IsV2
    /\ obs.op = "tick"
    /\ ~is_validfs(obs.fs)
    /\ obs.ints # {}
    /\ obs.delay = 500

\* C29: the snapping step returns the first table entry, in table order,
\* that is within 2000 Hz of the raw rate, the bound included; a rate in two
\* windows is given the earlier entry.
C29_FirstMatchInTableOrder ==
    call.fn = "find_closest_fs" =>
        \A i \in 1..(Len(supported_fs) - 1) :
            (/\ Abs(call.fs - supported_fs[i]) <= 2000
             /\ \A j \in 1..(i - 1) : Abs(call.fs - supported_fs[j]) > 2000)
            => call.ret = supported_fs[i]

\* 46100 is at the upper edge of the window of 44100 and inside that of 48000
C29_Witness ==
    /\ call.fn = "find_closest_fs"
    /\ call.fs = 46100
    /\ call.ret = 44100

\* C30 as stated: a raw rate within 2000 Hz of no table entry is returned
\* unmodified by the snapping step.
C30_NoMatchReturnsRaw ==
    (call.fn = "find_closest_fs" /\ \A r \in Rates : Abs(call.fs - r) > 2000)
        => call.ret = call.fs

\* C30: for a raw rate within 2000 Hz of no table entry the snapping step
\* returns the table's terminator, -1, which is not a supported rate, and the
\* estimator then returns 0.
C30_NoMatchReturnsTerminator ==
    /\ (call.fn = "find_closest_fs" /\ \A r \in Rates : Abs(call.fs - r) > 2000)
          => (call.ret = -1 /\ ~is_validfs(call.ret))
    /\ (/\ call.fn = "audio_fs"
        /\ call.rd.cts # U32(0)
        /\ \A r \in Rates : Abs(audio_fs_raw(call.rd) - r) > 2000)
          => call.ret = 0

\* 60000 is in no window
C30_Witness ==
    /\ call.fn = "find_closest_fs"
    /\ call.fs = 60000
    /\ call.ret = -1

\* C31: rk628_hdmirx_audio_enable(), called in any reachable state, sets
\* audio_enable and fifo_ints_en, after reinitialising the FIFO with
\* fifo_initd() when both error bits read set, with fifo_init() when exactly
\* one does and not at all when none does; once a handler has called it,
\* both flags stay true through every later notification, resync pass and
\* tick until setup() runs again.
C31_EnableArmsAndStays ==
    /\ hist.stage >= 1 => (aif.audio_state.audio_enable /\ aif.fifo_ints_en)
    /\ \A fifo_ints \in FifoReads :
         LET c == rk628_hdmirx_audio_enable(Ctx("enable"), fifo_ints)
         IN  /\ c.aif.audio_state.audio_enable
             /\ c.aif.fifo_ints_en
             /\ c.obs.fifo_initd = IF fifo_ints = FifoMask THEN 1 ELSE 0
             /\ c.obs.fifo_init = IF Cardinality(fifo_ints) = 1 THEN 1 ELSE 0

\* the audio was enabled, then a notification, a resync pass and a tick ran
C31_Witness ==
    /\ hist.stage = 4
    /\ aif.audio_state.audio_enable
    /\ aif.fifo_ints_en

\* C32: after every tick whose estimate is a supported rate the tracked rate
\* equals the estimate, and a tick applies a nudge only when its estimate is
\* a supported rate equal to the rate tracked at its end.  (Fails: the polled
\* tick with an unsupported estimate and no FIFO error bit goes on to the
\* nudge.)
C32_NudgeOnlyAtTrackedRate ==
    obs.op = "tick" =>
        /\ is_validfs(obs.fs) => aif.audio_state.fs_audio = obs.fs
        /\ obs.inc_rate # 0 =>
              (is_validfs(obs.fs) /\ aif.audio_state.fs_audio = obs.fs)

\* C33: rk628_hdmirx_audio_set_fs() sets the clock to exactly 128 times the
\* rate it commits and rk628_hdmirx_audio_clk_inc_rate() leaves the tracked
\* rate alone; a handler that commits ends with the clock at 128 times the
\* tracked rate plus the nudge it applied afterwards, setup() ends with it at
\* 5644800, and any other handler moves the clock by its nudge only, of 10 Hz
\* either way or none, and keeps the tracked rate.
C33_ClockFollowsCommits ==
    /\ \A fs \in Rates :
         LET c == rk628_hdmirx_audio_set_fs(Ctx("set_fs"), fs)
         IN  /\ c.aif.audio_state.hdmirx_aud_clkrate = 128 * fs
             /\ c.aif.audio_state.fs_audio = fs
    /\ \A dis \in {-10, 10} :
         LET c == rk628_hdmirx_audio_clk_inc_rate(Ctx("inc_rate"), dis)
         IN  /\ c.aif.audio_state.fs_audio = aif.audio_state.fs_audio
             /\ c.aif.audio_state.hdmirx_aud_clkrate
                  = aif.audio_state.hdmirx_aud_clkrate + dis
    /\ obs.inc_rate \in {-10, 0, 10}
    /\ obs.op = "setup" => aif.audio_state.hdmirx_aud_clkrate = 5644800
    /\ obs.set_fs > 0 =>
          aif.audio_state.hdmirx_aud_clkrate
            = 128 * aif.audio_state.fs_audio + obs.inc_rate
    /\ (obs.set_fs = 0 /\ obs.op \notin {"none", "setup"}) =>
          /\ obs.dclk = obs.inc_rate
          /\ aif.audio_state.fs_audio = obs.fs0

\* a tick committed a new rate and nudged the clock in the same run
C33_Witness ==
    /\ obs.op = "tick"
    /\ obs.set_fs = 1
    /\ obs.inc_rate = 10
    /\ aif.audio_state.hdmirx_aud_clkrate = 128 * aif.audio_state.fs_audio + 10

\* C34: a tick or resync pass whose estimate is not a supported rate leaves
\* the rate reported by rk628_hdmirx_audio_fs() as it was, and a reported
\* rate other than 0 goes back to 0 in a run of setup() only.
C34_RateKeptUntilSetup ==
    [][/\ (obs'.op \in {"tick", "rate_change"} /\ ~is_validfs(obs'.fs))
           => rk628_hdmirx_audio_fs(aif') = rk628_hdmirx_audio_fs(aif)
       /\ (rk628_hdmirx_audio_fs(aif) # 0 /\ rk628_hdmirx_audio_fs(aif') = 0)
           => obs'.op = "setup"]_vars

\* a resync pass read an unsupported estimate while 48000 was tracked
C34_Witness ==
    /\ obs.op = "rate_change"
    /\ ~is_validfs(obs.fs)
    /\ rk628_hdmirx_audio_fs(aif) = 48000

\* C35: before RK628F, from setup() until a resync pass has found both CTS/N
\* flags the tick is neither queued nor running and none has run; from
\* RK628F on, setup() leaves the tick queued until it starts.  (Fails:
\* setup() does not cancel a tick queued before it, which then runs before
\* any CTS/N update.)
C35_NoTickBeforeFirstResync ==
    /\ (~IsV2 /\ hist.stage = 0) =>
          /\ ~work.audio.pending
          /\ ~work.audio.running
          /\ hist.d1 = 0
    /\ (IsV2 /\ obs.op = "setup") => (work.audio.pending \/ work.audio.running)

\* C36: before RK628F, a resync pass that finds both CTS/N flags and an
\* unsupported estimate still leaves the tick queued or running, and it
\* stays so; once a later tick has read a supported estimate, with no
\* setup() in between, audio_enable is true.
C36_LateStartNotLost ==
    ~IsV2 =>
        /\ hist.stage = 1 => (work.audio.pending \/ work.audio.running)
        /\ hist.stage = 2 => aif.audio_state.audio_enable

\* the audio was started by a tick after a resync pass that could not
C36_Witness ==
    /\ ~IsV2
    /\ hist.stage = 2
    /\ aif.audio_state.audio_enable
    /\ aif.audio_state.fs_audio # 0

\* C37: rk628_hdmirx_audio_destroy(), called by a thread that does not hold
\* the mutex, returns in every interleaving with queued or running tick and
\* resync work, the resync pass waiting for the mutex included.
C37_TeardownTerminates == (destroy # "idle") ~> (destroy = "done")

\* teardown waits for a resync pass that waits for the mutex
C37_Witness ==
    /\ destroy = "cancel_rate_change"
    /\ work.rate_change.running
    /\ mutex = "controller"

====
